---------------------------- MODULE Spec2Model ----------------------------
(***************************************************************************)
(* SQL playground server: the admission-safety layer (sqlvalidator) and    *)
(* the connection lifecycle manager (dbmanager) with the request handler   *)
(* that joins them (main.go).                                              *)
(*                                                                         *)
(* Spec         the manager, its startup goroutines and concurrent requests*)
(* SpecGate     IsSafeDDLOperation applied to bounded inputs               *)
(* SpecLimit    HasLimitForSelect applied to bounded inputs                *)
(* SpecRows     executeQuery against every answer of the store             *)
(* SpecConnect  one connect of a dialect against every answer of the store *)
(* SpecValidate Validate applied to bounded inputs                         *)
(***************************************************************************)
EXTENDS Integers, Sequences, FiniteSets, TLC

VARIABLES
    databases,           \* dbmanager.databases: dialect -> handle (NoHandle: no entry)
    connectionStatuses,  \* dbmanager.connectionStatuses: dialect -> BOOLEAN
    opened,              \* per dialect, how many *sql.DB sql.Open has returned (none is ever closed)
    mainPc,              \* position of main()/InitDatabases
    loop,                \* per network dialect: the startup connectWithRetry goroutine
    req,                 \* per caller: the request handler's frame
    fatal,               \* the Go runtime aborted the process (concurrent map access)
    gsql, gdialect,      \* the inputs handed to the pure functions
    gstore,              \* what the store answers to a query handed to executeQuery
    gresult              \* what the functions returned for them

vars == <<databases, connectionStatuses, opened, mainPc, loop, req,
          fatal, gsql, gdialect, gstore, gresult>>

mgrVars == <<databases, connectionStatuses, opened, mainPc, loop, req, fatal>>
gateVars == <<gsql, gdialect, gstore, gresult>>

-----------------------------------------------------------------------------
(* Strings: Go's strings package on ASCII text *)

Ch(s, i) == SubSeq(s, i, i)

UpperLetters == "ABCDEFGHIJKLMNOPQRSTUVWXYZ"
LowerLetters == "abcdefghijklmnopqrstuvwxyz"
Digits == {"0", "1", "2", "3", "4", "5", "6", "7", "8", "9"}

UpperSet == {Ch(UpperLetters, i) : i \in 1..26}
LowerSet == {Ch(LowerLetters, i) : i \in 1..26}

IsUpper(c) == c \in UpperSet
IsLower(c) == c \in LowerSet

\* unicode.ToLower on the ASCII letters
LowerOf == [c \in UpperSet |->
              Ch(LowerLetters, CHOOSE i \in 1..26 : Ch(UpperLetters, i) = c)]

LowerCh(c) == IF c \in UpperSet THEN LowerOf[c] ELSE c

RECURSIVE ToLower(_)
ToLower(s) ==
    IF s = "" THEN ""
    ELSE LowerCh(Ch(s, 1)) \o ToLower(SubSeq(s, 2, Len(s)))

\* unicode.IsSpace on ASCII, which is also RE2's \s plus \v
SpaceChars == {" ", "\t", "\n", "\r", "\f"}

RECURSIVE TrimLeft(_)
TrimLeft(s) ==
    IF s # "" /\ Ch(s, 1) \in SpaceChars THEN TrimLeft(SubSeq(s, 2, Len(s))) ELSE s

RECURSIVE TrimRight(_)
TrimRight(s) ==
    IF s # "" /\ Ch(s, Len(s)) \in SpaceChars
    THEN TrimRight(SubSeq(s, 1, Len(s) - 1))
    ELSE s

TrimSpace(s) == TrimRight(TrimLeft(s))

HasPrefix(s, p) == Len(s) >= Len(p) /\ SubSeq(s, 1, Len(p)) = p

Contains(s, sub) ==
    \E i \in 1..(Len(s) - Len(sub) + 1) : SubSeq(s, i, i + Len(sub) - 1) = sub

-----------------------------------------------------------------------------
(* regexp.MatchString for the pattern shapes the rule set uses.  A pattern *)
(* is a sequence of items; an item is an alternation of literals or a      *)
(* repetition of a character class.                                        *)

Lit(s) == [k |-> "alt", v |-> {s}]
Alt(S) == [k |-> "alt", v |-> S]
Plus(cls) == [k |-> "plus", v |-> {cls}]
Star(cls) == [k |-> "star", v |-> {cls}]

\* RE2 character classes: \s, \w, \d and . (which does not match a newline)
InClass(c, cls) ==
    CASE cls = "s" -> c \in {" ", "\t", "\n", "\r", "\f"}
      [] cls = "w" -> IsLower(c) \/ IsUpper(c) \/ c \in Digits \/ c = "_"
      [] cls = "d" -> c \in Digits
      [] cls = "." -> c # "\n"

\* positions (characters consumed) reachable from a position of P by one item
StepAlt(s, P, S) ==
    {pa[1] + Len(pa[2]) :
        pa \in {x \in P \X S :
                  /\ x[1] + Len(x[2]) <= Len(s)
                  /\ SubSeq(s, x[1] + 1, x[1] + Len(x[2])) = x[2]}}

\* the end of the longest run of class cls that starts after position p
RECURSIVE RunEnd(_, _, _)
RunEnd(s, p, cls) ==
    IF p < Len(s) /\ InClass(Ch(s, p + 1), cls) THEN RunEnd(s, p + 1, cls) ELSE p

StepPlus(s, P, cls) == UNION {(p + 1)..RunEnd(s, p, cls) : p \in P}

\* Step with \s* read as \s+
Step_StarAsPlus(item, s, P) ==
    CASE item.k = "alt" -> StepAlt(s, P, item.v)
      [] item.k = "plus" -> StepPlus(s, P, CHOOSE c \in item.v : TRUE)
      [] item.k = "star" -> StepPlus(s, P, CHOOSE c \in item.v : TRUE)

Step(item, s, P) ==
    CASE item.k = "alt" -> StepAlt(s, P, item.v)
      [] item.k = "plus" -> StepPlus(s, P, CHOOSE c \in item.v : TRUE)
      [] item.k = "star" -> P \cup StepPlus(s, P, CHOOSE c \in item.v : TRUE)

RECURSIVE MatchFrom(_, _, _, _)
MatchFrom(pat, k, s, P) ==
    IF k > Len(pat) THEN P ELSE MatchFrom(pat, k + 1, s, Step(pat[k], s, P))

\* unanchored: the match may start and end anywhere
RegexpMatch(pat, s) == MatchFrom(pat, 1, s, 0..Len(s)) # {}

-----------------------------------------------------------------------------
(* main.executeQuery: the rows of a result *)

\* the answer of the store to one db.Query:
\*   fail      "query": db.Query returns an error; "columns": rows.Columns does
\*   n         the rows the result set holds
\*   nextErrAt the call of rows.Next that fails (it returns false and rows.Err
\*             is set), 0 if none does
\*   scanErrAt the row whose rows.Scan fails, 0 if none does
NoAnswer == [fail |-> "none", n |-> 0, nextErrAt |-> 0, scanErrAt |-> 0]

\* if count >= 10 { break }
RowCap == 10

QueryError == [err |-> TRUE, rows |-> 0]
QueryResult(count) == [err |-> FALSE, rows |-> count]

\* the loop over rows.Next leaving only when count is above 10
RECURSIVE RowLoop_CapOffByOne(_, _)
RowLoop_CapOffByOne(store, count) ==
    IF store.nextErrAt = count + 1 THEN QueryError
    ELSE IF count = store.n THEN QueryResult(count)
    ELSE IF count > RowCap THEN QueryResult(count)
    ELSE IF store.scanErrAt = count + 1 THEN QueryError
    ELSE RowLoop_CapOffByOne(store, count + 1)

\* for rows.Next() { ... }; rows.Err(): count rows are in result.Rows so far
RECURSIVE RowLoop(_, _)
RowLoop(store, count) ==
    IF store.nextErrAt = count + 1 THEN QueryError
    ELSE IF count = store.n THEN QueryResult(count)
    ELSE IF count >= RowCap THEN QueryResult(count)
    ELSE IF store.scanErrAt = count + 1 THEN QueryError
    ELSE RowLoop(store, count + 1)

\* executeQuery(db, query, dialect), as far as the number of rows goes
executeQuery(store) ==
    IF store.fail # "none" THEN QueryError ELSE RowLoop(store, 0)

(* SpecRows: inputs of executeQuery *)

MaxStoreRows == 12

QueryAnswers ==
    {[fail |-> f, n |-> x[1], nextErrAt |-> x[2], scanErrAt |-> x[3]] :
        f \in {"none", "query", "columns"},
        x \in {y \in (0..MaxStoreRows) \X (0..(MaxStoreRows + 1)) \X (0..MaxStoreRows) :
                  y[2] <= y[1] + 1 /\ y[3] <= y[1]}}

RowsInit ==
    /\ gsql = "SELECT * FROM test"
    /\ gdialect = "sqlite"
    /\ gstore \in QueryAnswers
    /\ gresult = <<>>

\* one call executeQuery(db, gsql, gdialect) answered with gstore
RunQuery ==
    /\ gresult = <<>>
    /\ gresult' = <<executeQuery(gstore)>>
    /\ UNCHANGED <<gsql, gdialect, gstore, mgrVars>>

-----------------------------------------------------------------------------
(* sqlvalidator: the safety gatekeeper *)

S1 == Plus("s")
S0 == Star("s")

\* IsSafeDDLOperation's blockedPatterns, in the order of the source
blockedPatterns == <<
    [pattern |-> <<Lit("drop"), S1, Alt({"database", "schema", "user"})>>,
     message |-> "DROP DATABASE/SCHEMA/USER operations are not allowed"],
    [pattern |-> <<Lit("truncate"), S1, Lit("database")>>,
     message |-> "TRUNCATE DATABASE operations are not allowed"],
    [pattern |-> <<Lit("delete"), S1, Lit("from"), S1,
                   Alt({"user", "users", "permission", "permissions",
                        "role", "roles", "account", "accounts"})>>,
     message |-> "DELETE operations on sensitive tables are not allowed"],
    [pattern |-> <<Lit("alter"), S1, Lit("user")>>,
     message |-> "ALTER USER operations are not allowed"],
    [pattern |-> <<Lit("grant"), S1, Lit("all")>>,
     message |-> "GRANT ALL operations are not allowed"],
    [pattern |-> <<Lit("revoke"), S1, Lit("all")>>,
     message |-> "REVOKE ALL operations are not allowed"],
    [pattern |-> <<Lit("shutdown")>>,
     message |-> "SHUTDOWN operations are not allowed"],
    [pattern |-> <<Lit("create"), S1, Alt({"database", "schema"})>>,
     message |-> "CREATE DATABASE/SCHEMA operations are not allowed"],
    [pattern |-> <<Lit("drop"), S1, Lit("table")>>,
     message |-> "DROP TABLE operations are not allowed in this playground"],
    [pattern |-> <<Lit("alter"), S1, Lit("table"), S1, Plus("w"), S1,
                   Lit("drop"), S1, Lit("column")>>,
     message |-> "ALTER TABLE DROP COLUMN operations are not allowed"],
    [pattern |-> <<Lit("delete"), S1, Lit("from"), S1, Plus("w"), S1,
                   Lit("where"), S1, Lit("1"), S0, Lit("="), S0, Lit("1")>>,
     message |-> "DELETE all records operations are not allowed"],
    [pattern |-> <<Lit("update"), S1, Plus("w"), S1, Lit("set"), S1, Plus("."),
                   Lit("where"), S1, Lit("1"), S0, Lit("="), S0, Lit("1")>>,
     message |-> "UPDATE all records operations are not allowed"],
    [pattern |-> <<Alt({";", "--"}), S0,
                   Alt({"drop", "delete", "update", "insert", "alter", "create"})>>,
     message |-> "SQL injection attempts are not allowed"] >>

Allowed == [Safe |-> TRUE, Error |-> ""]
Denied(msg) == [Safe |-> FALSE, Error |-> msg]

verifySQLiteSafety(sqlLower) ==
    IF Contains(sqlLower, "pragma")
       /\ (Contains(sqlLower, "journal_mode")
           \/ Contains(sqlLower, "synchronous")
           \/ Contains(sqlLower, "secure_delete"))
    THEN Denied("PRAGMA statements that modify database settings are not allowed")
    ELSE IF Contains(sqlLower, "attach database")
    THEN Denied("ATTACH DATABASE operations are not allowed")
    ELSE Allowed

verifyMySQLSafety(sqlLower) ==
    IF (Contains(sqlLower, "mysql.")
        \/ Contains(sqlLower, "information_schema.")
        \/ Contains(sqlLower, "performance_schema."))
       /\ (Contains(sqlLower, "insert")
           \/ Contains(sqlLower, "update")
           \/ Contains(sqlLower, "delete")
           \/ Contains(sqlLower, "alter"))
    THEN Denied("Modifying system tables is not allowed")
    ELSE IF Contains(sqlLower, "set global") \/ Contains(sqlLower, "set @@global")
    THEN Denied("Setting global variables is not allowed")
    ELSE Allowed

dangerousFunctions == <<"pg_read_file", "pg_ls_dir", "pg_sleep", "copy",
                        "lo_import", "lo_export", "pg_catalog.pg_file_write",
                        "pg_catalog.pg_read_binary_file">>

\* the loop over dangerousFunctions: index of the first one found, 0 if none
RECURSIVE FirstDangerous(_, _)
FirstDangerous(sqlLower, i) ==
    IF i > Len(dangerousFunctions) THEN 0
    ELSE IF Contains(sqlLower, dangerousFunctions[i]) THEN i
    ELSE FirstDangerous(sqlLower, i + 1)

verifyPostgreSQLSafety(sqlLower) ==
    IF Contains(sqlLower, "pg_")
       /\ (Contains(sqlLower, "insert")
           \/ Contains(sqlLower, "update")
           \/ Contains(sqlLower, "delete")
           \/ Contains(sqlLower, "alter"))
    THEN Denied("Modifying system catalogs is not allowed")
    ELSE LET i == FirstDangerous(sqlLower, 1)
         IN IF i # 0
            THEN Denied("Usage of potentially dangerous functions is not allowed: "
                        \o dangerousFunctions[i])
            ELSE Allowed

\* the loop over blockedPatterns: index of the rule it returns on, 0 if it falls through
\* the search of blockedPatterns that keeps the last rule that matches
RECURSIVE LastBlocked(_, _)
LastBlocked(sqlLower, i) ==
    IF i > Len(blockedPatterns) THEN 0
    ELSE LET rest == LastBlocked(sqlLower, i + 1)
         IN IF rest # 0 THEN rest
            ELSE IF RegexpMatch(blockedPatterns[i].pattern, sqlLower) THEN i
            ELSE 0

RECURSIVE FirstBlocked(_, _)
FirstBlocked(sqlLower, i) ==
    IF i > Len(blockedPatterns) THEN 0
    ELSE IF RegexpMatch(blockedPatterns[i].pattern, sqlLower) THEN i
    ELSE FirstBlocked(sqlLower, i + 1)

\* the switch on the dialect with the PostgreSQL function list checked for
\* every supported dialect
DialectPolicy_FunctionsEverywhere(sqlLower, dialect) ==
    IF dialect \in {"sqlite", "mysql", "postgresql"}
       /\ FirstDangerous(sqlLower, 1) # 0
    THEN Denied("Usage of potentially dangerous functions is not allowed: "
                \o dangerousFunctions[FirstDangerous(sqlLower, 1)])
    ELSE CASE dialect = "sqlite" -> verifySQLiteSafety(sqlLower)
           [] dialect = "mysql" -> verifyMySQLSafety(sqlLower)
           [] dialect = "postgresql" -> verifyPostgreSQLSafety(sqlLower)
           [] OTHER -> Denied("Unsupported SQL dialect")

\* the switch on the dialect without its default branch
DialectPolicy_NoDefault(sqlLower, dialect) ==
    CASE dialect = "sqlite" -> verifySQLiteSafety(sqlLower)
      [] dialect = "mysql" -> verifyMySQLSafety(sqlLower)
      [] dialect = "postgresql" -> verifyPostgreSQLSafety(sqlLower)
      [] OTHER -> Allowed

\* the switch on dialect
DialectPolicy(sqlLower, dialect) ==
    CASE dialect = "sqlite" -> verifySQLiteSafety(sqlLower)
      [] dialect = "mysql" -> verifyMySQLSafety(sqlLower)
      [] dialect = "postgresql" -> verifyPostgreSQLSafety(sqlLower)
      [] OTHER -> Denied("Unsupported SQL dialect")

\* IsSafeDDLOperation matching the statement as written, without strings.ToLower
IsSafeDDLOperation_NoFold(sql, dialect) ==
    LET i == FirstBlocked(sql, 1)
    IN IF i # 0 THEN Denied(blockedPatterns[i].message)
       ELSE DialectPolicy(sql, dialect)

IsSafeDDLOperation(sql, dialect) ==
    LET sqlLower == ToLower(sql)
        i == FirstBlocked(sqlLower, 1)
    IN IF i # 0 THEN Denied(blockedPatterns[i].message)
       ELSE DialectPolicy(sqlLower, dialect)

-----------------------------------------------------------------------------
(* SpecGate: inputs of the pure functions *)

MaxParts == 3

Parts == {"DROP", " TABLE t", " database", "delete from", " users", " w",
          " WHERE 1 =1", ";", "Update t Set a=1", "select 1"}

ExampleStatements == {
    "DROP TABLE accounts",
    "select * from users where 1=1",
    "DELETE FROM widgets WHERE 1=1",
    "SELECT pg_sleep(10)",
    "SELECT * FROM test",
    "   ",
    "Truncate\tDatabase",
    "ALTER USER bob",
    "GRANT  ALL ON t TO u",
    "revoke all",
    "SHUTDOWN",
    "CREATE\nSCHEMA s",
    "ALTER TABLE t DROP COLUMN c",
    "select 1 -- Drop",
    "PRAGMA journal_mode=WAL",
    "ATTACH DATABASE 'x' AS y",
    "aTTaCH Database 'x' as y",
    "ATTACH 'x' AS y",
    "attach  database 'x' as y",
    "Attach\tDatabase 'x' AS y",
    "SET GLOBAL x=1",
    "INSERT INTO mysql.user VALUES (1)",
    "UPDATE pg_class SET a=1",
    "COPY t TO 'f'" }

RECURSIVE Join(_)
Join(parts) == IF parts = <<>> THEN "" ELSE Head(parts) \o Join(Tail(parts))

Statements ==
    ExampleStatements
    \cup {Join(ps) : ps \in UNION {[1..n -> Parts] : n \in 0..MaxParts}}

KnownDialects == {"sqlite", "mysql", "postgresql"}
Dialects == KnownDialects \cup {"oracle"}

GateInit ==
    /\ gsql \in Statements
    /\ gdialect \in Dialects
    /\ gstore = NoAnswer
    /\ gresult = <<>>

\* one call IsSafeDDLOperation(gsql, gdialect)
Evaluate ==
    /\ gresult = <<>>
    /\ gresult' = <<IsSafeDDLOperation(gsql, gdialect)>>
    /\ UNCHANGED <<gsql, gdialect, gstore>>

-----------------------------------------------------------------------------
(* sqlvalidator.HasLimitForSelect *)

\* `\s+limit\s+\d+`
limitRegex == <<S1, Lit("limit"), S1, Plus("d")>>

DefaultLimit == " LIMIT 100"

NotRewritten(sql) == [sql |-> sql, added |-> FALSE]

\* HasLimitForSelect looking for "select" without strings.TrimSpace
HasLimitForSelect_NoTrim(sql) ==
    LET sqlLower == ToLower(sql)
    IN IF ~HasPrefix(sqlLower, "select") THEN NotRewritten(sql)
       ELSE IF RegexpMatch(limitRegex, sqlLower) THEN NotRewritten(sql)
       ELSE [sql |-> sql \o DefaultLimit, added |-> TRUE]

\* HasLimitForSelect matching limitRegex against the statement as written
HasLimitForSelect_CaseSensitive(sql) ==
    LET sqlLower == ToLower(sql)
    IN IF ~HasPrefix(TrimSpace(sqlLower), "select") THEN NotRewritten(sql)
       ELSE IF RegexpMatch(limitRegex, sql) THEN NotRewritten(sql)
       ELSE [sql |-> sql \o DefaultLimit, added |-> TRUE]

\* HasLimitForSelect without its test for a SELECT statement
HasLimitForSelect_NoSelectTest(sql) ==
    LET sqlLower == ToLower(sql)
    IN IF RegexpMatch(limitRegex, sqlLower) THEN NotRewritten(sql)
       ELSE [sql |-> sql \o DefaultLimit, added |-> TRUE]

\* HasLimitForSelect appending "LIMIT 100" with no space before it
HasLimitForSelect_NoSpace(sql) ==
    LET sqlLower == ToLower(sql)
    IN IF ~HasPrefix(TrimSpace(sqlLower), "select") THEN NotRewritten(sql)
       ELSE IF RegexpMatch(limitRegex, sqlLower) THEN NotRewritten(sql)
       ELSE [sql |-> sql \o "LIMIT 100", added |-> TRUE]

HasLimitForSelect(sql) ==
    LET sqlLower == ToLower(sql)
    IN IF ~HasPrefix(TrimSpace(sqlLower), "select") THEN NotRewritten(sql)
       ELSE IF RegexpMatch(limitRegex, sqlLower) THEN NotRewritten(sql)
       ELSE [sql |-> sql \o DefaultLimit, added |-> TRUE]

(* SpecLimit: inputs of HasLimitForSelect *)

MaxTail == 2

LimitHeads == {"SELECT * FROM test", "select a from t", " \n\tSelect 1",
               "INSERT INTO t VALUES (1)", "UPDATE t SET a=1", "DELETE FROM t",
               "  insert into t select 1", "selection", ""}

TailParts == {" LIMIT 10", " LIMIT ?", ";", "\tLiMiT\n7", " limit", " OFFSET 2"}

LimitTails == UNION {[1..n -> TailParts] : n \in 0..MaxTail}

LimitStatements == {h \o Join(tl) : h \in LimitHeads, tl \in LimitTails}

LimitInit ==
    /\ gsql \in LimitStatements
    /\ gdialect = ""
    /\ gstore = NoAnswer
    /\ gresult = <<>>

\* one call HasLimitForSelect(gsql)
Rewrite ==
    /\ gresult = <<>>
    /\ gresult' = <<HasLimitForSelect(gsql)>>
    /\ UNCHANGED <<gsql, gdialect, gstore, mgrVars>>

\* HasLimitForSelect called on the statement it returned
RewriteAgain ==
    /\ Len(gresult) = 1
    /\ gresult' = Append(gresult, HasLimitForSelect(gresult[1].sql))
    /\ UNCHANGED <<gsql, gdialect, gstore, mgrVars>>

-----------------------------------------------------------------------------
(* sqlvalidator.Validate *)

\* validateMySQL, which validatePostgreSQL and validateSQLite call: every branch
\* returns (true, nil)
validateMySQL(sql) == TRUE

\* Validate handing the lower-cased dialect to IsSafeDDLOperation
Validate_FoldedDialect(sql, dialect) ==
    LET trimmed == TrimSpace(sql)
    IN IF trimmed = "" THEN FALSE
       ELSE IF ~IsSafeDDLOperation(trimmed, ToLower(dialect)).Safe THEN FALSE
       ELSE IF ToLower(dialect) \in {"mysql", "postgresql", "sqlite"}
       THEN validateMySQL(trimmed)
       ELSE FALSE

\* TRUE when Validate returns (true, nil)
Validate(sql, dialect) ==
    LET trimmed == TrimSpace(sql)
    IN IF trimmed = "" THEN FALSE
       ELSE IF ~IsSafeDDLOperation(trimmed, dialect).Safe THEN FALSE
       ELSE IF ToLower(dialect) \in {"mysql", "postgresql", "sqlite"}
       THEN validateMySQL(trimmed)
       ELSE FALSE

\* err.Error() of what Validate returns, "" when it returns (true, nil)
ValidateError(sql, dialect) ==
    LET trimmed == TrimSpace(sql)
        safetyCheck == IsSafeDDLOperation(trimmed, dialect)
    IN IF trimmed = "" THEN "SQL query cannot be empty"
       ELSE IF ~safetyCheck.Safe THEN safetyCheck.Error
       ELSE IF ToLower(dialect) \in {"mysql", "postgresql", "sqlite"} THEN ""
       ELSE "unsupported SQL dialect"

\* the dialect strings handed to Validate: those of the gatekeeper and the
\* supported ones in another letter case
ValidateDialects == Dialects \cup {"MySQL", "SQLite", "POSTGRESQL"}

ValidateInit ==
    /\ gsql \in Statements
    /\ gdialect \in ValidateDialects
    /\ gstore = NoAnswer
    /\ gresult = <<>>

\* one call Validate(gsql, gdialect)
ValidateCall ==
    /\ gresult = <<>>
    /\ gresult' = <<[valid |-> Validate(gsql, gdialect),
                     error |-> ValidateError(gsql, gdialect)]>>
    /\ UNCHANGED <<gsql, gdialect, gstore, mgrVars>>

-----------------------------------------------------------------------------
(* dbmanager and the request handler *)

NumCallers == 2
StartupRetries == 5
ReconnectRetries == 1

NetworkDialects == {"mysql", "postgresql"}
Callers == 1..NumCallers

\* databases[d] = NoHandle: the map has no entry for d.  A *sql.DB is known
\* by the goroutine whose sql.Open returned it: the startup goroutine of its
\* dialect (0) or the request of caller c.  A goroutine stores at most one
\* handle (the startup loop breaks after its first success, a request makes one
\* attempt); the handles of its failed attempts are referenced nowhere and
\* are only counted, in opened.
NoHandle == 0
Startup == 0
HandleOf(opener) == opener + 1

ReqStatements == {"SELECT * FROM test", "DROP TABLE accounts", "   "}

IdleReq == [pc |-> "idle", sql |-> "", dialect |-> "", db |-> NoHandle,
            probed |-> NoHandle, attempts |-> 0, published |-> NoHandle,
            acquired |-> FALSE, executed |-> FALSE, query |-> "",
            overdue |-> FALSE, resp |-> "none", pinged |-> {},
            report |-> {}]

\* i: failed attempts so far; once the goroutine has returned i is gone
IdleLoop == [pc |-> "idle", i |-> 0, connected |-> FALSE]

MgrInit ==
    /\ databases = [d \in KnownDialects |-> NoHandle]
    /\ connectionStatuses = [d \in KnownDialects |-> FALSE]
    /\ opened = [d \in KnownDialects |-> 0]
    /\ mainPc = "initSQLite"
    /\ loop = [d \in NetworkDialects |-> IdleLoop]
    /\ req = [c \in Callers |-> IdleReq]
    /\ fatal = FALSE

\* the lookup falling back on the sqlite handle when the dialect has none
Stored_Fallback(d) ==
    IF d \in DOMAIN databases /\ databases[d] # NoHandle THEN databases[d]
    ELSE databases["sqlite"]

\* db, ok := databases[dialect]: NoHandle when !ok
Stored(d) == IF d \in DOMAIN databases THEN databases[d] ELSE NoHandle

\* What the stores answer is the environment's choice at every call: db.Ping
\* and the statements run on a handle succeed (TRUE) or fail (FALSE).
StoreAnswers == BOOLEAN

\* InitDatabases setting the sqlite status whatever initSQLite returned
InitSQLite_StatusAnyway ==
    /\ ~fatal
    /\ mainPc = "initSQLite"
    /\ opened' = [opened EXCEPT !["sqlite"] = @ + 1]
    /\ \E execOk \in StoreAnswers :
         IF execOk
         THEN /\ databases' = [databases EXCEPT !["sqlite"] = HandleOf(Startup)]
              /\ mainPc' = "sqliteStatus"
         ELSE /\ mainPc' = "sqliteStatus"
              /\ UNCHANGED databases
    /\ UNCHANGED <<connectionStatuses, loop, req, fatal, gateVars>>

\* initSQLite: sql.Open and the three Exec calls; on success the handle is
\* stored in databases, on failure the error is returned (the handle stays open)
InitSQLite ==
    /\ ~fatal
    /\ mainPc = "initSQLite"
    /\ opened' = [opened EXCEPT !["sqlite"] = @ + 1]
    /\ \E execOk \in StoreAnswers :
         IF execOk
         THEN /\ databases' = [databases EXCEPT !["sqlite"] = HandleOf(Startup)]
              /\ mainPc' = "sqliteStatus"
         ELSE /\ mainPc' = "spawn"
              /\ UNCHANGED databases
    /\ UNCHANGED <<connectionStatuses, loop, req, fatal, gateVars>>

\* InitDatabases, the else branch: connectionStatuses["sqlite"] = true
InitSQLiteStatus ==
    /\ ~fatal
    /\ mainPc = "sqliteStatus"
    /\ connectionStatuses' = [connectionStatuses EXCEPT !["sqlite"] = TRUE]
    /\ mainPc' = "spawn"
    /\ UNCHANGED <<databases, opened, loop, req, fatal, gateVars>>

\* InitDatabases: the two go connectWithRetry(..., 5) statements, then main
\* starts the HTTP server
SpawnLoops ==
    /\ ~fatal
    /\ mainPc = "spawn"
    /\ loop' = [d \in NetworkDialects |-> [IdleLoop EXCEPT !.pc = "try"]]
    /\ mainPc' = "serving"
    /\ UNCHANGED <<databases, connectionStatuses, opened, req, fatal, gateVars>>

\* tryConnect up to the point where the connection is stored: sql.Open (a new
\* handle), db.Ping, the safety settings (their errors are only logged) and
\* initDatabase.  TRUE when it goes on to store the handle.
TryConnectProceeds(pingOk, initOk) == pingOk /\ initOk

\* the loop with the condition i <= maxRetries
RetryAgain_OneMore(i, maxRetries) == i < maxRetries

\* connectWithRetry's loop after attempt number i (from 0) returned false and
\* the sleep: TRUE when the loop makes another attempt
RetryAgain(i, maxRetries) == i + 1 < maxRetries

\* The startup goroutine connectWithRetry(d, driver, 5): one tryConnect up to
\* databases[dialect] = db, or a failed attempt and the sleep
LoopTry(d) ==
    /\ ~fatal
    /\ loop[d].pc = "try"
    /\ opened' = [opened EXCEPT ![d] = @ + 1]
    /\ \E pingOk \in StoreAnswers, initOk \in StoreAnswers :
         IF TryConnectProceeds(pingOk, initOk)
         THEN /\ databases' = [databases EXCEPT ![d] = HandleOf(Startup)]
              /\ loop' = [loop EXCEPT ![d].pc = "status"]
         ELSE /\ loop' = [loop EXCEPT
                    ![d].i = @ + 1,
                    ![d].pc = IF RetryAgain(loop[d].i, StartupRetries)
                              THEN "try" ELSE "done"]
              /\ UNCHANGED databases
    /\ UNCHANGED <<connectionStatuses, mainPc, req, fatal, gateVars>>

\* tryConnect: connectionStatuses[dialect] = true; return true; the loop breaks
LoopStatus(d) ==
    /\ ~fatal
    /\ loop[d].pc = "status"
    /\ connectionStatuses' = [connectionStatuses EXCEPT ![d] = TRUE]
    /\ loop' = [loop EXCEPT ![d].pc = "done", ![d].i = 0, ![d].connected = TRUE]
    /\ UNCHANGED <<databases, opened, mainPc, req, fatal, gateVars>>

\* the handler checking every statement as a sqlite one, whatever req.Dialect
HandlerOutcome_FixedDialect(sql, dialect) ==
    IF ~IsSafeDDLOperation(sql, "sqlite").Safe THEN "denied"
    ELSE IF ~Validate(sql, "sqlite") THEN "invalid"
    ELSE "admit"

\* validateAndExecuteSQL up to the call of GetDatabaseConnection: the safety
\* check, then Validate
HandlerOutcome(sql, dialect) ==
    IF ~IsSafeDDLOperation(sql, dialect).Safe THEN "denied"
    ELSE IF ~Validate(sql, dialect) THEN "invalid"
    ELSE "admit"

\* validateAndExecuteSQL up to the call of GetDatabaseConnection: the text of
\* the error it answers with, safetyCheck.Error or err.Error() of Validate
HandlerError(sql, dialect) ==
    IF ~IsSafeDDLOperation(sql, dialect).Safe
    THEN IsSafeDDLOperation(sql, dialect).Error
    ELSE ValidateError(sql, dialect)

\* the requests of the model, each with what the handler decides for it
Requests ==
    {[sql |-> x[1], dialect |-> x[2], outcome |-> HandlerOutcome(x[1], x[2]),
      error |-> HandlerError(x[1], x[2])] :
        x \in ReqStatements \X Dialects}

\* the request a frame was made for
RequestOf(r) == CHOOSE q \in Requests : q.sql = r.sql /\ q.dialect = r.dialect

\* validateAndExecuteSQL: the request is bound, checked and validated.
\* Callers are interchangeable: they take up requests in index order.
Receive(c) ==
    /\ ~fatal
    /\ mainPc = "serving"
    /\ req[c].pc = "idle"
    /\ IF c = 1 THEN TRUE ELSE req[c - 1].pc # "idle"
    /\ \E r \in Requests :
         req' = [req EXCEPT ![c] =
                   IF r.outcome = "admit"
                   THEN [IdleReq EXCEPT !.pc = "lookup", !.sql = r.sql,
                                        !.dialect = r.dialect]
                   ELSE [IdleReq EXCEPT !.pc = "done", !.sql = r.sql,
                                        !.dialect = r.dialect,
                                        !.resp = r.outcome]]
    /\ UNCHANGED <<databases, connectionStatuses, opened, mainPc, loop, fatal, gateVars>>

\* the handler's frame once it has responded: the locals are gone
Responded(r, resp) ==
    [r EXCEPT !.pc = "done", !.resp = resp, !.db = NoHandle,
              !.probed = NoHandle, !.published = NoHandle, !.overdue = FALSE]

\* GetDatabaseConnection: db, ok := databases[dialect]; an error if !ok;
\* db.Ping(); on success return db, nil
GetLookup(c) ==
    /\ ~fatal
    /\ req[c].pc = "lookup"
    /\ LET d == req[c].dialect
       IN \E pingOk \in StoreAnswers :
            req' = [req EXCEPT ![c] =
                      IF Stored(d) = NoHandle
                      THEN Responded(@, "connerr")
                      ELSE IF pingOk
                      THEN [@ EXCEPT !.pc = "exec", !.db = Stored(d),
                                     !.acquired = TRUE]
                      ELSE [@ EXCEPT !.pc = "mark", !.db = Stored(d),
                                     !.probed = Stored(d)]]
    /\ UNCHANGED <<databases, connectionStatuses, opened, mainPc, loop, fatal, gateVars>>

\* GetDatabaseConnection: connectionStatuses[dialect] = false
GetMark(c) ==
    /\ ~fatal
    /\ req[c].pc = "mark"
    /\ connectionStatuses' = [connectionStatuses EXCEPT ![req[c].dialect] = FALSE]
    /\ req' = [req EXCEPT ![c].pc = "try"]
    /\ UNCHANGED <<databases, opened, mainPc, loop, fatal, gateVars>>

\* dialectToDriver, which GetDatabaseConnection uses to reconnect
dialectToDriver(dialect) == IF dialect = "postgresql" THEN "postgres" ELSE dialect

\* the database/sql drivers the imports register: go-sql-driver/mysql, lib/pq
\* and mattn/go-sqlite3, the last under the name initSQLite opens it with.
\* sql.Open with any other name returns an error and no handle.
DriverRegistered(driver) == driver \in {"mysql", "postgres", "sqlite3"}

\* GetDatabaseConnection: connectWithRetry(dialect, driver, 1): one tryConnect
\* up to databases[dialect] = db, or a failed attempt and the sleep
GetTry(c) ==
    /\ ~fatal
    /\ req[c].pc = "try"
    /\ LET d == req[c].dialect
           openOk == DriverRegistered(dialectToDriver(d))
       IN /\ opened' = [opened EXCEPT ![d] = IF openOk THEN @ + 1 ELSE @]
          /\ \E pingOk \in StoreAnswers, initOk \in StoreAnswers :
               IF openOk /\ TryConnectProceeds(pingOk, initOk)
               THEN /\ databases' = [databases EXCEPT ![d] = HandleOf(c)]
                    /\ req' = [req EXCEPT ![c].pc = "status",
                                          ![c].attempts = @ + 1,
                                          ![c].published = HandleOf(c)]
               ELSE /\ req' = [req EXCEPT
                          ![c].attempts = @ + 1,
                          ![c].pc = IF RetryAgain(req[c].attempts, ReconnectRetries)
                                    THEN "try" ELSE "reread"]
                    /\ UNCHANGED databases
    /\ UNCHANGED <<connectionStatuses, mainPc, loop, fatal, gateVars>>

\* tryConnect in the caller: connectionStatuses[dialect] = true; return true
GetStatus(c) ==
    /\ ~fatal
    /\ req[c].pc = "status"
    /\ connectionStatuses' = [connectionStatuses EXCEPT ![req[c].dialect] = TRUE]
    /\ req' = [req EXCEPT ![c].pc = "reread"]
    /\ UNCHANGED <<databases, opened, mainPc, loop, fatal, gateVars>>

\* GetDatabaseConnection: db, ok = databases[dialect]; an error if !ok, else
\* return db, nil
GetReread(c) ==
    /\ ~fatal
    /\ req[c].pc = "reread"
    /\ LET d == req[c].dialect
       IN req' = [req EXCEPT ![c] =
                    IF Stored(d) = NoHandle
                    THEN Responded(@, "connerr")
                    ELSE [@ EXCEPT !.pc = "exec", !.db = Stored(d),
                                   !.acquired = TRUE]]
    /\ UNCHANGED <<databases, connectionStatuses, opened, mainPc, loop, fatal, gateVars>>

\* validateAndExecuteSQL calls executeQuery(db, req.SQL, req.Dialect), which
\* calls db.Query(query): the statement is with the store; query records the
\* text the store was given
Execute(c) ==
    /\ ~fatal
    /\ req[c].pc = "exec"
    /\ req' = [req EXCEPT ![c] =
                 [@ EXCEPT !.pc = "query", !.executed = TRUE,
                           !.query = req[c].sql,
                           !.probed = NoHandle, !.published = NoHandle]]
    /\ UNCHANGED <<databases, connectionStatuses, opened, mainPc, loop, fatal, gateVars>>

\* db.Query is still blocked when the 5 seconds of ExecuteWithTimeout have
\* passed: executeQuery calls db.Query with no context, so nothing happens
QueryWaits(c) ==
    /\ ~fatal
    /\ req[c].pc = "query"
    /\ ~req[c].overdue
    /\ req' = [req EXCEPT ![c].overdue = TRUE]
    /\ UNCHANGED <<databases, connectionStatuses, opened, mainPc, loop, fatal, gateVars>>

\* the handler dropping the handle from the registry when the query failed
QueryReturns_DropsOnError(c) ==
    /\ ~fatal
    /\ req[c].pc = "query"
    /\ \E queryOk \in StoreAnswers :
         /\ req' = [req EXCEPT ![c] =
                      Responded(@, IF queryOk THEN "ok" ELSE "execerr")]
         /\ databases' = [databases EXCEPT ![req[c].dialect] =
                             IF queryOk THEN @ ELSE NoHandle]
    /\ UNCHANGED <<connectionStatuses, opened, mainPc, loop, fatal, gateVars>>

\* the store answers db.Query, whenever it does: executeQuery returns the
\* result or the error and the handler responds
QueryReturns(c) ==
    /\ ~fatal
    /\ req[c].pc = "query"
    /\ \E queryOk \in StoreAnswers :
         req' = [req EXCEPT ![c] =
                   Responded(@, IF queryOk THEN "ok" ELSE "execerr")]
    /\ UNCHANGED <<databases, connectionStatuses, opened, mainPc, loop, fatal, gateVars>>

\* err.Error() of the error GetDatabaseConnection returned to the frame r:
\* from the first lookup when no reconnect was tried, else from the second
ConnectionError(r) ==
    IF r.attempts = 0
    THEN "no database connection available for " \o r.dialect
    ELSE "failed to reconnect to " \o r.dialect

\* the text of the error db.Query or the row loop returned: the store's own
StoreError == "store error"

NoError == ""

\* the handler answering a connection error with valid: false
HandlerResponse_ConnErrInvalid(r) ==
    CASE r.resp = "denied" ->
           [valid |-> FALSE, result |-> "absent",
            error |-> RequestOf(r).error]
      [] r.resp = "invalid" ->
           [valid |-> FALSE, result |-> "absent",
            error |-> RequestOf(r).error]
      [] r.resp = "connerr" ->
           [valid |-> FALSE, result |-> "absent",
            error |-> ConnectionError(r)]
      [] r.resp = "execerr" ->
           [valid |-> TRUE, result |-> "null",
            error |-> "Query execution error: " \o StoreError]
      [] OTHER -> [valid |-> TRUE, result |-> "rows", error |-> NoError]

\* validateAndExecuteSQL: the gin.H it writes for the frame r. result is
\* "absent" when the body has no result key, "null" when it is nil
HandlerResponse(r) ==
    CASE r.resp = "denied" ->
           [valid |-> FALSE, result |-> "absent",
            error |-> RequestOf(r).error]
      [] r.resp = "invalid" ->
           [valid |-> FALSE, result |-> "absent",
            error |-> RequestOf(r).error]
      [] r.resp = "connerr" ->
           [valid |-> TRUE, result |-> "null",
            error |-> "Database connection error: " \o ConnectionError(r)]
      [] r.resp = "execerr" ->
           [valid |-> TRUE, result |-> "null",
            error |-> "Query execution error: " \o StoreError]
      [] OTHER -> [valid |-> TRUE, result |-> "rows", error |-> NoError]

\* GetConnectionStatuses without its db != nil test
ProbedStatus_NoNilCheck(db, pingOk, old) == pingOk

\* GetConnectionStatuses whose ping can only lower a status
ProbedStatus_OnlyLowers(db, pingOk, old) ==
    IF db # NoHandle THEN old /\ pingOk ELSE old

\* GetConnectionStatuses, one iteration: the status of a dialect whose handle
\* is db after the ping, old being its status before
ProbedStatus(db, pingOk, old) == IF db # NoHandle THEN pingOk ELSE old

\* getDatabaseStatus: GetConnectionStatuses pings every stored handle and
\* sets its dialect's status; the response is the status map (report: the
\* dialects it gives as true; pinged: the dialects whose ping succeeded).  An iteration touches only its own dialect's
\* entries and can leave them as they are, so the iterations of one call taken
\* together reach the same states as when other goroutines run between them.
GetConnectionStatuses(c) ==
    /\ ~fatal
    /\ mainPc = "serving"
    /\ req[c].pc = "idle"
    /\ IF c = 1 THEN TRUE ELSE req[c - 1].pc # "idle"
    /\ \E pings \in [KnownDialects -> StoreAnswers] :
         /\ connectionStatuses' =
                [d \in KnownDialects |->
                    ProbedStatus(databases[d], pings[d], connectionStatuses[d])]
         /\ req' = [req EXCEPT ![c] =
                      [IdleReq EXCEPT
                          !.pc = "done", !.resp = "status",
                          !.pinged = {d \in KnownDialects :
                                         databases[d] # NoHandle /\ pings[d]},
                          !.report = {d \in KnownDialects : connectionStatuses'[d]}]]
    /\ UNCHANGED <<databases, opened, mainPc, loop, fatal, gateVars>>

\* The maps are read and written without any lock.  Goroutines whose next
\* steps touch the same map, one of them writing, may do so at once; the
\* runtime then can abort the process ("concurrent map writes").
DatabasesWriters ==
    Cardinality({d \in NetworkDialects : loop[d].pc = "try"})
    + Cardinality({c \in Callers : req[c].pc = "try"})
DatabasesReaders ==
    Cardinality({c \in Callers : req[c].pc \in {"lookup", "reread"}})
StatusesWriters ==
    Cardinality({d \in NetworkDialects : loop[d].pc = "status"})
    + Cardinality({c \in Callers : req[c].pc \in {"mark", "status"}})

MapRace ==
    \/ DatabasesWriters >= 2
    \/ DatabasesWriters >= 1 /\ DatabasesReaders >= 1
    \/ StatusesWriters >= 2

MapRaceFatal ==
    /\ ~fatal
    /\ MapRace
    /\ fatal' = TRUE
    /\ databases' = [d \in KnownDialects |-> NoHandle]
    /\ connectionStatuses' = [d \in KnownDialects |-> FALSE]
    /\ opened' = [d \in KnownDialects |-> 0]
    /\ mainPc' = "aborted"
    /\ loop' = [d \in NetworkDialects |-> IdleLoop]
    /\ req' = [c \in Callers |-> IdleReq]
    /\ UNCHANGED gateVars

-----------------------------------------------------------------------------
Init ==
    /\ MgrInit
    /\ gsql = "" /\ gdialect = "" /\ gstore = NoAnswer /\ gresult = <<>>

Next ==
    \/ InitSQLite
    \/ InitSQLiteStatus
    \/ SpawnLoops
    \/ \E d \in NetworkDialects : LoopTry(d) \/ LoopStatus(d)
    \/ \E c \in Callers :
         \/ Receive(c)
         \/ GetConnectionStatuses(c)
         \/ GetLookup(c)
         \/ GetMark(c)
         \/ GetTry(c)
         \/ GetStatus(c)
         \/ GetReread(c)
         \/ Execute(c)
         \/ QueryWaits(c)
         \/ QueryReturns(c)
    \/ MapRaceFatal

Spec == Init /\ [][Next]_vars

GateNext == Evaluate /\ UNCHANGED mgrVars

InitGate == MgrInit /\ GateInit

SpecGate == InitGate /\ [][GateNext]_vars

InitLimit == MgrInit /\ LimitInit

LimitNext == Rewrite \/ RewriteAgain

SpecLimit == InitLimit /\ [][LimitNext]_vars

-----------------------------------------------------------------------------
(* dbmanager: what a connect applies to the handle it publishes *)

\* SetSafeDatabaseDefaults: "applied" when every Exec of the dialect
\* succeeded, "failed" when it returns an error, "skipped" when the switch
\* has no case for the dialect
SetSafeDatabaseDefaults(dialect, a) ==
    CASE dialect = "mysql" ->
           IF ~a.exec1 THEN "failed"
           ELSE IF a.exec2 THEN "applied" ELSE "failed"
      [] dialect \in {"postgresql", "sqlite"} ->
           IF a.exec1 THEN "applied" ELSE "failed"
      [] OTHER -> "skipped"

\* ApplyTransactionLimits: it has no case for sqlite and returns nil
ApplyTransactionLimits(dialect, a) ==
    IF dialect \in {"mysql", "postgresql"}
    THEN IF a.limits THEN "applied" ELSE "failed"
    ELSE "skipped"

NotPublished ==
    [published |-> FALSE, defaults |-> "skipped", limits |-> "skipped",
     pool |-> FALSE]

\* tryConnect(dialect, driver) against the answers a of the store: whether
\* databases[dialect] is written, and what the handle had applied to it
tryConnect(dialect, driver, a) ==
    IF ~DriverRegistered(driver) THEN NotPublished
    ELSE IF ~TryConnectProceeds(a.ping, a.init) THEN NotPublished
    ELSE [published |-> TRUE,
          defaults |-> SetSafeDatabaseDefaults(dialect, a),
          limits |-> ApplyTransactionLimits(dialect, a),
          pool |-> TRUE]

\* initSQLite: sql.Open("sqlite3", ...), the three Execs of the test table,
\* databases["sqlite"] = db; it calls neither SetSafeDatabaseDefaults nor
\* ApplyTransactionLimits nor the SetMax... of the pool
initSQLite(a) ==
    IF ~DriverRegistered("sqlite3") \/ ~a.init THEN NotPublished
    ELSE [published |-> TRUE, defaults |-> "skipped", limits |-> "skipped",
          pool |-> FALSE]

\* InitDatabases: how each dialect is connected at startup
StartupConnect(dialect, a) ==
    CASE dialect = "sqlite" -> initSQLite(a)
      [] dialect = "mysql" -> tryConnect("mysql", "mysql", a)
      [] dialect = "postgresql" -> tryConnect("postgresql", "postgres", a)

\* what the store answers to one connect: the ping, the Execs of the
\* defaults, the Exec of the limits, the initialisation of the schema
ConnectAnswers ==
    [ping : BOOLEAN, exec1 : BOOLEAN, exec2 : BOOLEAN, limits : BOOLEAN,
     init : BOOLEAN]

ConnectInit ==
    /\ gsql = ""
    /\ gdialect \in KnownDialects
    /\ gstore \in ConnectAnswers
    /\ gresult = <<>>

\* the connect of gdialect that InitDatabases makes
ConnectAtStartup ==
    /\ gresult = <<>>
    /\ gresult' = <<[by |-> "InitDatabases",
                     handle |-> StartupConnect(gdialect, gstore)]>>
    /\ UNCHANGED <<gsql, gdialect, gstore, mgrVars>>

\* the connect of gdialect that GetDatabaseConnection makes after a failed ping
Reconnect ==
    /\ gresult = <<>>
    /\ gresult' = <<[by |-> "GetDatabaseConnection",
                     handle |-> tryConnect(gdialect, dialectToDriver(gdialect),
                                           gstore)]>>
    /\ UNCHANGED <<gsql, gdialect, gstore, mgrVars>>

InitConnect == MgrInit /\ ConnectInit

ConnectNext == ConnectAtStartup \/ Reconnect

SpecConnect == InitConnect /\ [][ConnectNext]_vars

InitValidate == MgrInit /\ ValidateInit

ValidateNext == ValidateCall

SpecValidate == InitValidate /\ [][ValidateNext]_vars

InitRows == MgrInit /\ RowsInit

RowsNext == RunQuery

SpecRows == InitRows /\ [][RowsNext]_vars

-----------------------------------------------------------------------------
(* The manager and the handler: properties of Spec *)

\* the requests for which the safety check and Validate both allow
AllowedRequests ==
    UNION {IF IsSafeDDLOperation(x[1], x[2]).Safe /\ Validate(x[1], x[2])
           THEN {x} ELSE {} : x \in ReqStatements \X Dialects}

IsSqlRequest(r) == r.pc # "idle" /\ r.resp # "status"

\* the request has reached GetDatabaseConnection or executeQuery
InManager(r) ==
    \/ r.pc \in {"lookup", "mark", "try", "status", "reread", "exec", "query"}
    \/ r.acquired \/ r.executed \/ r.attempts > 0
    \/ r.resp \in {"connerr", "execerr", "ok"}

\* C1: a statement reaches GetDatabaseConnection and executeQuery only when
\* IsSafeDDLOperation and Validate allowed that statement under that dialect;
\* a request that was denied acquires no connection and executes nothing.
C1_VerdictBeforeExecution ==
    \A c \in Callers :
        IsSqlRequest(req[c]) =>
            /\ InManager(req[c]) =>
                   <<req[c].sql, req[c].dialect>> \in AllowedRequests
            /\ <<req[c].sql, req[c].dialect>> \notin AllowedRequests =>
                   /\ req[c].pc = "done"
                   /\ req[c].resp \in {"denied", "invalid"}
                   /\ ~req[c].acquired
                   /\ ~req[c].executed

C1_Witness ==
    /\ \E c \in Callers : req[c].resp = "denied" /\ req[c].pc = "done"
    /\ \E c \in Callers : req[c].executed /\ req[c].resp = "ok"

\* C2: of the callers whose probe failed on the same handle of a dialect, at
\* most one publishes a reconnected handle, and all of them come back with
\* the same handle.
C2_SingleReconnect ==
    \A c1, c2 \in Callers :
        (/\ c1 # c2
         /\ req[c1].dialect = req[c2].dialect
         /\ req[c1].probed # NoHandle
         /\ req[c1].probed = req[c2].probed) =>
            /\ ~(req[c1].published # NoHandle /\ req[c2].published # NoHandle)
            /\ (req[c1].pc = "exec" /\ req[c2].pc = "exec") =>
                   req[c1].db = req[c2].db

\* C3: a call whose probe failed returns a handle only after exactly one
\* reconnection attempt that succeeded, and the handle is the one that
\* attempt published, never the handle whose probe failed.
C3_NoStaleHandle ==
    \A c \in Callers :
        (req[c].pc = "exec" /\ req[c].probed # NoHandle) =>
            /\ req[c].attempts = 1
            /\ req[c].published # NoHandle
            /\ req[c].db = req[c].published
            /\ req[c].db # req[c].probed

\* the startup loop of d has used up its attempts without ever connecting
Exhausted(d) == loop[d].pc = "done" /\ ~loop[d].connected

\* C4: a network dialect whose startup loop ended without a connection has
\* no handle and status false; GetConnectionStatuses reports it false and
\* GetDatabaseConnection returns an error for it, never a handle.
C4_ExhaustedIsUnreachable ==
    \A d \in NetworkDialects :
        Exhausted(d) =>
            /\ databases[d] = NoHandle
            /\ connectionStatuses[d] = FALSE
            /\ \A c \in Callers :
                 /\ req[c].resp = "status" => d \notin req[c].report
                 /\ (IsSqlRequest(req[c]) /\ req[c].dialect = d) =>
                        /\ req[c].pc \in {"lookup", "done"}
                        /\ ~req[c].acquired
                        /\ req[c].resp \in
                               {"none", "denied", "invalid", "connerr"}

C4_Witness ==
    \E d \in NetworkDialects :
        /\ Exhausted(d)
        /\ \E c \in Callers : req[c].resp = "status" /\ d \notin req[c].report
        /\ \E c \in Callers : req[c].resp = "connerr" /\ req[c].dialect = d

\* C5: a GetDatabaseConnection call that returns an error has made a
\* connection attempt first, whatever state the dialect was in.
C5_ErrorOnlyAfterAttempt ==
    \A c \in Callers :
        (req[c].pc = "done" /\ req[c].resp = "connerr") => req[c].attempts >= 1

\* C6: a dialect has at most one handle that is opened and not closed
\* (no operation of the program closes a handle).
C6_AtMostOneLiveHandle == \A d \in KnownDialects : opened[d] <= 1

-----------------------------------------------------------------------------
(* The gatekeeper: properties of SpecGate *)

\* the rules whose pattern matches the statement, case folded
MatchingRules(sql) ==
    {i \in 1..Len(blockedPatterns) :
        RegexpMatch(blockedPatterns[i].pattern, ToLower(sql))}

RuleMessages == {blockedPatterns[i].message : i \in 1..Len(blockedPatterns)}

SetMin(S) == CHOOSE x \in S : \A y \in S : x <= y

Evaluated == gresult # <<>>

\* what the policy of a supported dialect answers by itself
PolicyAllows(sql, dialect) ==
    \/ dialect = "sqlite" /\ verifySQLiteSafety(ToLower(sql)).Safe
    \/ dialect = "mysql" /\ verifyMySQLSafety(ToLower(sql)).Safe
    \/ dialect = "postgresql" /\ verifyPostgreSQLSafety(ToLower(sql)).Safe

\* C7: a statement that some pattern rule matches, in whatever letter case,
\* is denied with the message of a pattern rule, under every dialect string.
C7_RuleMatchDenies ==
    (Evaluated /\ MatchingRules(gsql) # {}) =>
        /\ gresult[1].Safe = FALSE
        /\ gresult[1].Error \in RuleMessages

C7_Witness ==
    /\ Evaluated
    /\ MatchingRules(gsql) # {}
    /\ gsql # ToLower(gsql)
    /\ gdialect = "oracle"
    /\ gresult[1].Safe = FALSE

\* C8: when several pattern rules match, the message is that of the matching
\* rule that comes first in the list.
C8_FirstMatchWins ==
    (Evaluated /\ MatchingRules(gsql) # {}) =>
        gresult[1].Error = blockedPatterns[SetMin(MatchingRules(gsql))].message

C8_Witness ==
    /\ Evaluated
    /\ Cardinality(MatchingRules(gsql)) >= 2
    /\ gresult[1].Error = blockedPatterns[SetMin(MatchingRules(gsql))].message

\* C9: a statement no pattern rule matches is allowed exactly when the
\* dialect is sqlite, mysql or postgresql and the policy of that dialect finds
\* no violation; under any other dialect it is denied as unsupported.
C9_DialectDispatch ==
    (Evaluated /\ MatchingRules(gsql) = {}) =>
        /\ gresult[1].Safe <=>
               (gdialect \in KnownDialects /\ PolicyAllows(gsql, gdialect))
        /\ gdialect \notin KnownDialects =>
               gresult[1] = Denied("Unsupported SQL dialect")

C9_Witness ==
    /\ Evaluated
    /\ MatchingRules(gsql) = {}
    /\ gdialect \notin KnownDialects
    /\ gresult[1] = Denied("Unsupported SQL dialect")

\* C10 as stated: "select * from users where 1=1" is denied under each of the
\* three dialects, and "DELETE FROM widgets WHERE 1=1" is denied under sqlite.
C10_TautologyDenied ==
    Evaluated =>
        /\ (gsql = "select * from users where 1=1" /\ gdialect \in KnownDialects)
               => gresult[1].Safe = FALSE
        /\ (gsql = "DELETE FROM widgets WHERE 1=1" /\ gdialect = "sqlite")
               => gresult[1].Safe = FALSE

\* C10: "select * from users where 1=1" is allowed under each of the three
\* dialects, and "DELETE FROM widgets WHERE 1=1" is denied under sqlite.
C10_TautologySelectAllowed ==
    Evaluated =>
        /\ (gsql = "select * from users where 1=1" /\ gdialect \in KnownDialects)
               => gresult[1] = Allowed
        /\ (gsql = "DELETE FROM widgets WHERE 1=1" /\ gdialect = "sqlite")
               => gresult[1] = Denied("DELETE all records operations are not allowed")

C10_Witness ==
    /\ Evaluated
    /\ gsql = "select * from users where 1=1"
    /\ gdialect = "postgresql"
    /\ gresult[1].Safe

NamesDangerousFunction(sql) ==
    \E i \in 1..Len(dangerousFunctions) :
        Contains(ToLower(sql), dangerousFunctions[i])

\* C11: a statement that names a PostgreSQL dangerous function is denied
\* under postgresql; under mysql it is denied only when a pattern rule or the
\* MySQL policy objects, and "SELECT pg_sleep(10)" is allowed there.
C11_PolicyPerDialect ==
    (Evaluated /\ NamesDangerousFunction(gsql)) =>
        /\ gdialect = "postgresql" => gresult[1].Safe = FALSE
        /\ gdialect = "mysql" =>
               (gresult[1].Safe <=>
                    (/\ MatchingRules(gsql) = {}
                     /\ verifyMySQLSafety(ToLower(gsql)).Safe))
        /\ (gsql = "SELECT pg_sleep(10)" /\ gdialect = "mysql") =>
               gresult[1] = Allowed

C11_Witness ==
    /\ Evaluated
    /\ gsql = "SELECT pg_sleep(10)"
    /\ gdialect = "mysql"
    /\ gresult[1] = Allowed

-----------------------------------------------------------------------------
(* The row-limit rewrite: properties of SpecLimit *)

Rewritten == Len(gresult) >= 1

RECURSIVE LeadingSpace(_, _)
\* the number of whitespace characters the statement starts with, from i on
LeadingSpace(s, i) ==
    IF i <= Len(s) /\ Ch(s, i) \in SpaceChars THEN LeadingSpace(s, i + 1)
    ELSE i - 1

\* the statement begins with SELECT after leading whitespace, in any case
BeginsWithSelect(s) ==
    LET k == LeadingSpace(s, 1)
    IN /\ Len(s) >= k + 6
       /\ ToLower(SubSeq(s, k + 1, k + 6)) = "select"

\* whitespace, "limit" in any case, whitespace, then a character of chars
LimitClauseWith(s, chars) ==
    \E i \in 1..Len(s) :
        /\ InClass(Ch(s, i), "s")
        /\ Len(s) >= i + 7
        /\ ToLower(SubSeq(s, i + 1, i + 5)) = "limit"
        /\ \E j \in (i + 6)..(Len(s) - 1) :
             /\ \A k \in (i + 6)..j : InClass(Ch(s, k), "s")
             /\ Ch(s, j + 1) \in chars

NoLimitClause(s) == ~LimitClauseWith(s, Digits \cup {"?"})

\* t is s with ins inserted at some position
InsertedInto(s, ins, t) ==
    \E k \in 0..Len(s) :
        t = SubSeq(s, 1, k) \o ins \o SubSeq(s, k + 1, Len(s))

\* C12: a statement that begins with SELECT and has no limit clause comes
\* back with " LIMIT 100" added and the flag true; "SELECT * FROM test"
\* becomes "SELECT * FROM test LIMIT 100".
C12_AddsDefaultLimit ==
    (Rewritten /\ BeginsWithSelect(gsql) /\ NoLimitClause(gsql)) =>
        /\ gresult[1].added = TRUE
        /\ InsertedInto(gsql, " LIMIT 100", gresult[1].sql)
        /\ gsql = "SELECT * FROM test" =>
               gresult[1].sql = "SELECT * FROM test LIMIT 100"

C12_Witness ==
    /\ Rewritten
    /\ gsql = "SELECT * FROM test"
    /\ gresult[1] = [sql |-> "SELECT * FROM test LIMIT 100", added |-> TRUE]

\* C13: a SELECT statement with a limit clause that has a numeric literal,
\* in any letter case, comes back unchanged with the flag false.
C13_LiteralLimitKept ==
    (Rewritten /\ BeginsWithSelect(gsql) /\ LimitClauseWith(gsql, Digits)) =>
        gresult[1] = [sql |-> gsql, added |-> FALSE]

C13_Witness ==
    /\ Rewritten
    /\ gsql = "SELECT * FROM test LIMIT 10;"
    /\ gresult[1] = [sql |-> gsql, added |-> FALSE]

\* C14: a SELECT statement whose limit clause has a placeholder instead of
\* digits comes back unchanged with the flag false.
C14_PlaceholderLimitKept ==
    (Rewritten /\ BeginsWithSelect(gsql) /\ LimitClauseWith(gsql, {"?"})) =>
        gresult[1] = [sql |-> gsql, added |-> FALSE]

\* C15: a statement that does not begin with SELECT after leading whitespace
\* comes back unchanged with the flag false.
C15_NonSelectUntouched ==
    (Rewritten /\ ~BeginsWithSelect(gsql)) =>
        gresult[1] = [sql |-> gsql, added |-> FALSE]

C15_Witness ==
    /\ Rewritten
    /\ gsql = "INSERT INTO t VALUES (1)"
    /\ gresult[1] = [sql |-> gsql, added |-> FALSE]

\* C16: HasLimitForSelect applied to the statement it returned gives that
\* statement back with the flag false.
C16_Idempotent ==
    Len(gresult) = 2 =>
        gresult[2] = [sql |-> gresult[1].sql, added |-> FALSE]

C16_Witness ==
    /\ Len(gresult) = 2
    /\ gresult[1].added
    /\ gresult[2] = [sql |-> gresult[1].sql, added |-> FALSE]

\* C17: for a SELECT statement without a limit clause that ends with ';' the
\* limit is put before the semicolon: "SELECT * FROM test;" becomes
\* "SELECT * FROM test LIMIT 100;".
C17_LimitBeforeSemicolon ==
    (/\ Rewritten
     /\ BeginsWithSelect(gsql)
     /\ NoLimitClause(gsql)
     /\ Ch(gsql, Len(gsql)) = ";") =>
        gresult[1] = [sql |-> SubSeq(gsql, 1, Len(gsql) - 1) \o " LIMIT 100;",
                      added |-> TRUE]

-----------------------------------------------------------------------------
(* The request path after approval: properties of Spec *)

\* C18: the statement handed to the store is the approved statement after
\* the row-limit rewrite; for an approved SELECT without a limit clause the
\* text the store is given carries the default row cap.
C18_RewrittenIsExecuted ==
    \A c \in Callers :
        req[c].executed =>
            /\ req[c].query = HasLimitForSelect(req[c].sql).sql
            /\ (BeginsWithSelect(req[c].sql) /\ NoLimitClause(req[c].sql)) =>
                   RegexpMatch(limitRegex, ToLower(req[c].query))

\* C19: no statement is still with the store once the deadline has passed:
\* at the deadline the operation is cancelled and the request ends.
C19_DeadlineCancelsQuery ==
    \A c \in Callers : ~(req[c].pc = "query" /\ req[c].overdue)

-----------------------------------------------------------------------------
(* The rows of a result: properties of SpecRows *)

Min(a, b) == IF a <= b THEN a ELSE b

\* the rows the store delivers before its result set ends or breaks off
Delivered(store) ==
    IF store.nextErrAt # 0 THEN store.nextErrAt - 1 ELSE store.n

\* C20: a result that executeQuery returns holds at most 10 rows, and exactly
\* the smaller of 10 and the number of rows the store delivers; with no
\* error at all a result is returned.
C20_AtMostTenRows ==
    gresult # <<>> =>
        /\ ~gresult[1].err =>
               /\ gresult[1].rows <= 10
               /\ gresult[1].rows = Min(10, Delivered(gstore))
        /\ (/\ gstore.fail = "none"
            /\ gstore.nextErrAt = 0
            /\ gstore.scanErrAt = 0) => ~gresult[1].err

C20_Witness ==
    /\ gresult # <<>>
    /\ gstore.n > 10
    /\ ~gresult[1].err
    /\ gresult[1].rows = 10

-----------------------------------------------------------------------------
(* The registry: further properties of Spec *)

\* C21: a call of GetConnectionStatuses leaves, for every dialect with a
\* handle, the status its ping of that handle gave, reports that status, and
\* leaves and reports the status of a dialect without a handle as it was.
C21_StatusIsFreshProbe ==
    [][\A c \in Callers :
         (req[c].pc = "idle" /\ req'[c].resp = "status") =>
             \A d \in KnownDialects :
                 IF databases[d] # NoHandle
                 THEN /\ connectionStatuses'[d] = (d \in req'[c].pinged)
                      /\ (d \in req'[c].report) = (d \in req'[c].pinged)
                 ELSE /\ connectionStatuses'[d] = connectionStatuses[d]
                      /\ (d \in req'[c].report) = connectionStatuses[d]]_vars

C21_Witness ==
    \E c \in Callers :
        /\ req[c].resp = "status"
        /\ req[c].pinged # {}
        /\ req[c].report = req[c].pinged
        /\ \E d \in KnownDialects :
             /\ databases[d] # NoHandle
             /\ d \notin req[c].pinged
             /\ ~connectionStatuses[d]
        /\ \E d \in KnownDialects : databases[d] = NoHandle

\* the step is one of GetConnectionStatuses
StatusCallStep ==
    \E c \in Callers : req[c].pc = "idle" /\ req'[c].resp = "status"

\* the step is taken by something that connects or reconnects dialect d, or
\* the process aborts
ConnectStepFor(d) ==
    \/ fatal'
    \/ d = "sqlite" /\ mainPc' # mainPc
    \/ d \in NetworkDialects /\ loop'[d] # loop[d]
    \/ \E c \in Callers :
         /\ req[c].dialect = d
         /\ req[c].pc \in {"mark", "try", "status"}
         /\ req'[c] # req[c]

\* C22: GetDatabaseConnection(d) returns only the handle stored for d, and a
\* step that changes the handle or (outside GetConnectionStatuses) the status
\* of d is a step of a connect or reconnect for d.
C22_DialectIsolation ==
    [][/\ \A c \in Callers :
            (req[c].pc \in {"lookup", "reread"} /\ req'[c].pc = "exec") =>
                /\ req'[c].db = databases[req[c].dialect]
                /\ req'[c].db # NoHandle
       /\ \A d \in KnownDialects :
            (\/ databases'[d] # databases[d]
             \/ connectionStatuses'[d] # connectionStatuses[d] /\ ~StatusCallStep)
                => ConnectStepFor(d)]_vars

C22_Witness ==
    \E c \in Callers :
        /\ req[c].pc = "exec"
        /\ req[c].dialect = "mysql"
        /\ req[c].published # NoHandle
        /\ req[c].db = databases["mysql"]
        /\ req[c].db # databases["sqlite"]
        /\ databases["sqlite"] = HandleOf(Startup)
        /\ databases["postgresql"] = HandleOf(Startup)
        /\ connectionStatuses["postgresql"]

\* the frame has been answered by validateAndExecuteSQL
Answered(r) == r.pc = "done" /\ r.resp # "status"

\* the requests the gatekeeper denies, each with the message of the denial: a
\* pattern rule's, a dialect policy's, or that of an unsupported dialect
GatekeeperDenials ==
    UNION {IF ~IsSafeDDLOperation(x[1], x[2]).Safe
           THEN {<<x[1], x[2], IsSafeDDLOperation(x[1], x[2]).Error>>}
           ELSE {} : x \in ReqStatements \X Dialects}

GatekeeperDenies(sql, dialect) ==
    \E g \in GatekeeperDenials : g[1] = sql /\ g[2] = dialect

\* C23: a statement the gatekeeper denies is answered valid=false with the
\* gatekeeper's message, without a result, a connection or an execution; a
\* failure of GetDatabaseConnection or of executeQuery is answered valid=true
\* with a prefixed error and a null result, and only for a statement the
\* gatekeeper allowed; no denial carries a connection error's text.
C23_ErrorClassesDistinct ==
    \A c \in Callers :
        Answered(req[c]) =>
            LET r == req[c]
                body == HandlerResponse(r)
            IN /\ GatekeeperDenies(r.sql, r.dialect) =>
                    /\ body.valid = FALSE
                    /\ <<r.sql, r.dialect, body.error>> \in GatekeeperDenials
                    /\ body.error # NoError
                    /\ ~HasPrefix(body.error, "Database connection error: ")
                    /\ body.result = "absent"
                    /\ ~r.acquired /\ ~r.executed /\ r.attempts = 0
               /\ r.resp = "connerr" =>
                    /\ body.valid = TRUE
                    /\ HasPrefix(body.error, "Database connection error: ")
                    /\ body.result = "null"
                    /\ ~GatekeeperDenies(r.sql, r.dialect)
                    /\ ~r.executed
               /\ r.resp = "execerr" =>
                    /\ body.valid = TRUE
                    /\ HasPrefix(body.error, "Query execution error: ")
                    /\ body.result = "null"
                    /\ ~GatekeeperDenies(r.sql, r.dialect)
                    /\ r.executed

C23_Witness ==
    \E c1, c2 \in Callers :
        /\ Answered(req[c1]) /\ req[c1].resp = "denied"
        /\ req[c1].dialect = "mysql" /\ req[c1].sql = "DROP TABLE accounts"
        /\ ~HandlerResponse(req[c1]).valid
        /\ Answered(req[c2]) /\ req[c2].resp = "connerr"
        /\ req[c2].dialect = "mysql"
        /\ HandlerResponse(req[c2]).valid

-----------------------------------------------------------------------------
(* The sqlite policy: a further property of SpecGate *)

\* the statement is an ATTACH statement of sqlite: the keyword in any letter
\* case, then whitespace
AttachesDatabase(sql) ==
    LET s == ToLower(TrimLeft(sql))
    IN HasPrefix(s, "attach") /\ Len(s) > 6 /\ Ch(s, 7) \in SpaceChars

\* C24 as stated: under sqlite every statement that attaches a database is
\* denied, whatever its letter case and its whitespace, with or without the
\* DATABASE keyword.
C24_AttachAlwaysDenied ==
    (Evaluated /\ gdialect = "sqlite" /\ AttachesDatabase(gsql)) =>
        gresult[1].Safe = FALSE

-----------------------------------------------------------------------------
(* Published handles: a property of SpecConnect *)

\* C25 as stated: a handle is published only after the safety defaults, the
\* statement/lock-wait timeouts and the pool ceilings were applied to it
\* successfully, at startup and at a reconnect alike.
C25_PublishedIsHardened ==
    (gresult # <<>> /\ gresult[1].handle.published) =>
        /\ gresult[1].handle.defaults = "applied"
        /\ gresult[1].handle.limits = "applied"
        /\ gresult[1].handle.pool

-----------------------------------------------------------------------------
(* The startup loops: a further property of Spec *)

\* the attempts the startup loop l has made so far: the failed ones, and the
\* one that succeeded
AttemptsMade(l) ==
    CASE l.pc = "try" -> l.i
      [] l.pc = "status" -> l.i + 1
      [] l.pc = "done" /\ ~l.connected -> l.i
      [] OTHER -> 0

\* how many steps the startup loop l can still take
LoopMeasure(l) ==
    CASE l.pc = "done" -> 0
      [] l.pc = "status" -> 1
      [] l.pc = "try" -> 2 + 2 * (StartupRetries - l.i)
      [] OTHER -> 3 + 2 * StartupRetries

\* C26: a startup loop makes at most StartupRetries attempts; it attempts
\* again only after a failed attempt; every step it takes lowers a measure
\* that is never negative, so it ends, and once ended it takes no step; when
\* every attempt failed it ends with status false and no handle.
C26_RetryLoopTerminates ==
    /\ [](\A d \in NetworkDialects :
            /\ AttemptsMade(loop[d]) <= StartupRetries
            /\ loop[d].pc = "try" => AttemptsMade(loop[d]) < StartupRetries
            /\ LoopMeasure(loop[d]) >= 0
            /\ Exhausted(d) =>
                 /\ loop[d].i = StartupRetries
                 /\ databases[d] = NoHandle
                 /\ ~connectionStatuses[d])
    /\ [][\A d \in NetworkDialects :
            (loop'[d] # loop[d] /\ ~fatal') =>
                /\ LoopMeasure(loop'[d]) < LoopMeasure(loop[d])
                /\ loop[d].pc # "done"
                /\ loop[d].pc = "status" => loop'[d].pc = "done"]_vars

C26_Witness ==
    \E d, e \in NetworkDialects :
        /\ Exhausted(d)
        /\ loop[d].i = StartupRetries
        /\ opened[d] = StartupRetries
        /\ loop[e].pc = "done"
        /\ loop[e].connected
        /\ ~fatal

-----------------------------------------------------------------------------
(* Executions and the shared handle: a further property of Spec *)

\* C27: a step of an execution (handing the statement to the store, waiting
\* past the deadline, the store's result or error) leaves the registry as it
\* is; no step removes a stored handle; and a GetDatabaseConnection whose
\* ping succeeds returns the handle the registry holds.
C27_ExecutionKeepsHandle ==
    [][~fatal' =>
         /\ \A c \in Callers :
              (req[c].pc \in {"exec", "query"} /\ req'[c] # req[c]) =>
                  /\ databases' = databases
                  /\ connectionStatuses' = connectionStatuses
                  /\ opened' = opened
         /\ \A d \in KnownDialects :
              databases[d] # NoHandle => databases'[d] # NoHandle
         /\ \A c \in Callers :
              (req[c].pc = "lookup" /\ req'[c].pc = "exec") =>
                  /\ req'[c].db = databases'[req[c].dialect]
                  /\ databases' = databases]_vars

C27_Witness ==
    \E c1, c2 \in Callers :
        /\ req[c1].pc = "done" /\ req[c1].resp = "execerr"
        /\ req[c2].pc = "exec" /\ req[c2].dialect = req[c1].dialect
        /\ req[c2].attempts = 0
        /\ req[c2].db = databases[req[c1].dialect]
        /\ req[c2].db = HandleOf(Startup)

-----------------------------------------------------------------------------
(* Probes and the status: a further property of Spec *)

\* nothing is in the middle of connecting dialect d: its handle and its
\* status are not between the two writes of a connect
NoConnectInFlight(d) ==
    /\ d \in NetworkDialects => loop[d].pc \notin {"try", "status"}
    /\ d = "sqlite" => mainPc \notin {"initSQLite", "sqliteStatus"}
    /\ \A c \in Callers :
         req[c].dialect = d => req[c].pc \notin {"mark", "try", "status"}

\* C28 as stated: every ping the manager makes sets the status of the dialect
\* to the outcome of the ping: after GetConnectionStatuses the status of a
\* dialect with a handle is the outcome of its ping, after a failed ping of
\* GetDatabaseConnection it is false, and when GetDatabaseConnection returns
\* the handle after a successful ping, no connect of the dialect being under
\* way, it is true.
C28_ProbeSetsStatus ==
    [][\A c \in Callers :
         /\ (req[c].pc = "idle" /\ req'[c].resp = "status") =>
                \A d \in KnownDialects :
                    databases[d] # NoHandle =>
                        connectionStatuses'[d] = (d \in req'[c].pinged)
         /\ (req[c].pc = "mark" /\ req'[c].pc = "try") =>
                connectionStatuses'[req[c].dialect] = FALSE
         /\ (/\ req[c].pc = "lookup" /\ req'[c].pc = "exec"
             /\ NoConnectInFlight(req[c].dialect)) =>
                connectionStatuses'[req[c].dialect] = TRUE]_vars

-----------------------------------------------------------------------------
(* Status and handle: a further property of Spec *)

\* C29: in every state a dialect whose status is true has a handle in the
\* registry, and a step that raises a status to true starts from a state in
\* which the handle of that dialect is already stored.
C29_StatusImpliesHandle ==
    /\ [](\A d \in KnownDialects :
             connectionStatuses[d] => databases[d] # NoHandle)
    /\ [][\A d \in KnownDialects :
             (connectionStatuses'[d] /\ ~connectionStatuses[d]) =>
                 databases[d] # NoHandle /\ databases'[d] = databases[d]]_vars

C29_Witness ==
    \E d \in NetworkDialects, c \in Callers :
        /\ loop[d].pc = "status"
        /\ databases[d] # NoHandle
        /\ ~connectionStatuses[d]
        /\ connectionStatuses["sqlite"]
        /\ databases["sqlite"] # NoHandle
        /\ req[c].resp = "status"
        /\ "sqlite" \in req[c].pinged

-----------------------------------------------------------------------------
(* Validate: a property of SpecValidate *)

\* C30: Validate returns valid only for a statement that is not empty once
\* trimmed and that IsSafeDDLOperation accepts, trimmed, under the dialect
\* string as given; so a dialect that is not exactly sqlite, mysql or
\* postgresql, "MySQL" included, is never valid; and a statement of
\* whitespace only is rejected as empty, whatever the safety rules would say.
C30_ValidateRechecksSafety ==
    Evaluated =>
        /\ gresult[1].valid =>
             /\ TrimSpace(gsql) # ""
             /\ IsSafeDDLOperation(TrimSpace(gsql), gdialect).Safe
        /\ gresult[1].valid <=> gresult[1].error = ""
        /\ gdialect \notin KnownDialects => ~gresult[1].valid
        /\ TrimSpace(gsql) = "" =>
             /\ ~gresult[1].valid
             /\ gresult[1].error = "SQL query cannot be empty"

C30_Witness ==
    /\ Evaluated
    /\ gdialect = "MySQL"
    /\ gsql = "SELECT * FROM test"
    /\ Validate(gsql, "mysql")
    /\ ~gresult[1].valid
    /\ gresult[1].error = "Unsupported SQL dialect"

=============================================================================
